---- MODULE Spec2Model ----
(***************************************************************************)
(* ArenaAllocator (include/arena_allocator.h): a bump allocator over one   *)
(* malloc'ed block.  The model is the class on a platform whose size_t and *)
(* uintptr_t are WordBits wide, so that the unsigned arithmetic of Alloc   *)
(* and AllocArray wraps exactly as the C++ does.  Several arena objects    *)
(* live side by side so that move construction and move assignment can be  *)
(* exercised; the heap records which blocks malloc has handed out.         *)
(***************************************************************************)
EXTENDS Naturals, Integers, Sequences, FiniteSets, TLC

\* ---------------------------------------------------------------- platform

\* Width of size_t / uintptr_t in bits.
WordBits == 5

\* 2^WordBits: unsigned arithmetic is modulo this.
RECURSIVE Pow2(_)
Pow2(n) == IF n = 0 THEN 1 ELSE 2 * Pow2(n - 1)

Modulus == Pow2(WordBits)

Word == 0 .. (Modulus - 1)

\* nullptr
NULL == 0

Max(a, b) == IF a >= b THEN a ELSE b

Min(a, b) == IF a <= b THEN a ELSE b

\* Largest capacity an arena is constructed with: in the runs with one arena
\* and a small state, and in the others (two arenas, or the log of the bytes).
MaxCapacity == 5

MaxSmallCapacity == 1

\* Requests are drawn from both ends of the range of size_t: sizes up to
\* MaxRequest, and the MaxRequest largest values of size_t (the ones whose
\* sum with the offset and the padding wraps).
MaxRequest == 4

\* Positions in the list of Marker values the caller holds: in the runs with
\* one arena and no log, and in the others.
MarkerSlots == {1, 2}

FewMarkerSlots == {1}

\* The arena objects of the program.
Arenas == {1, 2}

\* Alignment malloc guarantees (alignof(max_align_t) of the platform).
MallocAlign == 4

\* Addresses at which malloc may place a block: multiples of MallocAlign,
\* MaxCapacity bytes apart at least, below the top of the address space.
\* The first is not aligned to 2 * MallocAlign, the second is.
Bases == {MallocAlign, 4 * MallocAlign}

\* Alignments a caller passes: powers of two, the largest being over-aligned
\* with respect to what malloc guarantees.
Aligns == {1, 2, MallocAlign, 2 * MallocAlign}

Sizes == {s \in Word : s <= MaxRequest \/ s >= Modulus - MaxRequest}

\* Element types of New<T> / AllocArray<T>.
Types == {"char", "short", "int"}

SizeOf(T) == CASE T = "char" -> 1 [] T = "short" -> 2 [] T = "int" -> 4

AlignOf(T) == CASE T = "char" -> 1 [] T = "short" -> 2 [] T = "int" -> 4

\* Element counts passed to AllocArray: small ones, and the ones around the
\* multiples of Modulus / 4, where count * sizeof(T) wraps.
Counts == {c \in Word : c <= 2 \/ (c % (Modulus \div 4) <= 1 /\ c < 3 * (Modulus \div 4))}

\* ---------------------------------------------------------------- state

VARIABLES
    status,         \* per arena object: "none" (not constructed), "alive", "dead"
    m_memoryBlock,  \* per arena: address of the block, NULL when it holds none
    m_totalSize,    \* per arena: capacity
    m_offset,       \* per arena: bump position
    heap,           \* the blocks malloc has handed out and free has not taken back
    badFree,        \* free() was called on an address that is not a held block
    last,           \* the most recent call: what was asked and what it returned
    markers,        \* the Marker values the caller holds, oldest first
    strayed,        \* history: ResetToMarker was given a marker taken before the
                    \*   arena was moved into or out of
    owned,          \* history, per arena: the bytes handed out and not reclaimed
    kept,           \* history, per arena: the bytes the last rollback preserved
    runEnd,         \* history, per arena: the furthest end of an allocation made
                    \*   since the last Reset / ResetToMarker (0: none yet)
    first,          \* history, per arena: the first allocation after construction
    objs            \* history: the objects New constructed, each with the flag its
                    \*   destructor sets (TestObj::isDestructed)

\* The history variables: what a caller that logs its calls would know.
hist == <<owned, kept, runEnd, first, objs>>

vars == <<status, m_memoryBlock, m_totalSize, m_offset, heap, badFree, last, markers,
          strayed, owned, kept, runEnd, first, objs>>

\* A call record: the operation, its argument where the caller has one to
\* tell apart (ResetToMarker: which of the markers it holds; a move: the
\* source arena; else 0) and the value it returned (a move: the arena that is
\* *this; 0 for an operation that returns nothing).
Call(op, arg, ret) == [op |-> op, arg |-> arg, ret |-> ret]

NoCall == Call("none", 0, 0)

\* A Marker as the caller holds it.  The arena hands out only val (the
\* offset); the rest is what the caller knows about the moment it was taken:
\* the arena, the buffer and capacity the arena had, the bytes that were
\* handed out before it, and whether it is still good to roll back to:
\*   "ok"       no rollback to an earlier point has happened since
\*   "unwound"  a Reset or a rollback to an earlier marker has passed it
\*   "foreign"  the arena has been moved into or out of since
\* Of a marker that is no longer good only the value is kept.
Mark(i, val, kind) ==
    [inst |-> i, val |-> val, block |-> m_memoryBlock[i], total |-> m_totalSize[i],
     held |-> owned[i], kind |-> kind]

\* The first allocation of an arena: none yet, or its alignment and result.
NoFirst == [align |-> 0, ret |-> 0]

Init ==
    /\ status = [i \in Arenas |-> "none"]
    /\ m_memoryBlock = [i \in Arenas |-> NULL]
    /\ m_totalSize = [i \in Arenas |-> 0]
    /\ m_offset = [i \in Arenas |-> 0]
    /\ heap = {}
    /\ badFree = FALSE
    /\ last = NoCall
    /\ markers = <<>>
    /\ strayed = FALSE
    /\ owned = [i \in Arenas |-> {}]
    /\ kept = [i \in Arenas |-> {}]
    /\ runEnd = [i \in Arenas |-> 0]
    /\ first = [i \in Arenas |-> NoFirst]
    /\ objs = {}

\* ---------------------------------------------------------------- heap

\* free(p): a no-op on nullptr, releases a held block, and is an error on
\* anything else (a block already released).
HeapAfterFree(h, p) == h \ {p}

FreeIsBad(h, p) == p # NULL /\ p \notin h

\* ---------------------------------------------------------------- Alloc

\* x & y on unsigned words, bit by bit from the lowest.
RECURSIVE BitAnd(_, _)
BitAnd(x, y) ==
    IF x = 0 \/ y = 0
    THEN 0
    ELSE (x % 2) * (y % 2) + 2 * BitAnd(x \div 2, y \div 2)

\* Mutant: the mask is align, not align - 1.
BitAndAlign(x, align) == BitAnd(x, align)

\* x & (align - 1), align - 1 taken in uintptr_t.
BitAndMask(x, align) == BitAnd(x, (align + Modulus - 1) % Modulus)

\* uintptr_t currentPtr = m_memoryBlock + m_offset
CurrentPtr(block, offset) == (block + offset) % Modulus

\* Mutant: the padding is computed from m_offset instead of the address.
PaddingOfOffset(block, offset, align) ==
    LET off == BitAndMask(offset, align)
    IN  IF off = 0 THEN 0 ELSE align - off

\* uintptr_t offset = currentPtr & (align - 1);
\* uintptr_t padding = (offset == 0) ? 0 : (align - offset);
Padding(block, offset, align) ==
    LET off == BitAndMask(CurrentPtr(block, offset), align)
    IN  IF off = 0 THEN 0 ELSE align - off

\* m_offset + padding + size, in size_t
AllocEnd(block, offset, size, align) ==
    (offset + Padding(block, offset, align) + size) % Modulus

\* Mutant: the capacity check is off by one.
AllocFailsLate(block, total, offset, size, align) ==
    AllocEnd(block, offset, size, align) > total + 1

\* if (m_offset + padding + size > m_totalSize) return nullptr;
AllocFails(block, total, offset, size, align) ==
    AllocEnd(block, offset, size, align) > total

\* nextAddress = currentPtr + padding
AllocAddress(block, offset, align) ==
    (CurrentPtr(block, offset) + Padding(block, offset, align)) % Modulus

\* The value Alloc returns.
AllocResult(block, total, offset, size, align) ==
    IF AllocFails(block, total, offset, size, align)
    THEN NULL
    ELSE AllocAddress(block, offset, align)

\* Mutant: the padding is added to m_offset before the capacity check.
AllocOffsetEager(block, total, offset, size, align) ==
    IF AllocFails(block, total, offset, size, align)
    THEN (offset + Padding(block, offset, align)) % Modulus
    ELSE AllocEnd(block, offset, size, align)

\* m_offset after Alloc.
AllocOffset(block, total, offset, size, align) ==
    IF AllocFails(block, total, offset, size, align)
    THEN offset
    ELSE AllocEnd(block, offset, size, align)

\* Mutant: the allocation is taken off the capacity as well.
DoAllocShrinking(i, op, size, align) ==
    /\ status[i] = "alive"
    /\ m_offset' = [m_offset EXCEPT ![i] =
            AllocOffset(m_memoryBlock[i], m_totalSize[i], m_offset[i], size, align)]
    /\ m_totalSize' = [m_totalSize EXCEPT ![i] =
            IF AllocFails(m_memoryBlock[i], m_totalSize[i], m_offset[i], size, align)
            THEN @ ELSE Max(@ - size, 0)]
    /\ last' = Call(op, 0,
            AllocResult(m_memoryBlock[i], m_totalSize[i], m_offset[i], size, align))
    /\ UNCHANGED <<status, m_memoryBlock, heap, badFree, markers>>
    /\ UNCHANGED strayed

\* The state change of one Alloc call on arena i, shared by Alloc, New and
\* AllocArray.
DoAlloc(i, op, size, align) ==
    /\ status[i] = "alive"
    /\ m_offset' = [m_offset EXCEPT ![i] =
            AllocOffset(m_memoryBlock[i], m_totalSize[i], m_offset[i], size, align)]
    /\ last' = Call(op, 0,
            AllocResult(m_memoryBlock[i], m_totalSize[i], m_offset[i], size, align))
    /\ UNCHANGED <<status, m_memoryBlock, m_totalSize, heap, badFree, markers>>
    /\ UNCHANGED strayed

Alloc(i, size, align) == DoAlloc(i, "Alloc", size, align)

\* void* mem = Alloc(sizeof(T), alignof(T)); placement new only if mem.
New(i, T) == DoAlloc(i, "New", SizeOf(T), AlignOf(T))

\* Alloc(sizeof(T) * count, alignof(T)), the product taken in size_t.
ArrayBytes(T, count) == (SizeOf(T) * count) % Modulus

AllocArray(i, T, count) == DoAlloc(i, "AllocArray", ArrayBytes(T, count), AlignOf(T))

\* ---------------------------------------------------------------- markers held

\* The markers of the arenas in `gone` are dropped: their arena is destroyed.
Forget(ms, gone) == SelectSeq(ms, LAMBDA m : m.inst \notin gone)

\* The markers of the arenas in `moved` were taken on a buffer, capacity and
\* offset the arena no longer has.
Estrange(ms, moved) ==
    [k \in DOMAIN ms |->
        IF ms[k].inst \in moved
        THEN [ms[k] EXCEPT !.kind = "foreign", !.block = NULL, !.total = 0, !.held = {}]
        ELSE ms[k]]

\* The good markers of arena i at positions above k (all of them for k = 0)
\* are passed by a rollback.
Unwind(ms, i, k) ==
    [n \in DOMAIN ms |->
        IF ms[n].inst = i /\ n > k /\ ms[n].kind = "ok"
        THEN [ms[n] EXCEPT !.kind = "unwound", !.block = NULL, !.total = 0, !.held = {}]
        ELSE ms[n]]

\* ---------------------------------------------------------------- lifetime

\* ArenaAllocator(sizeInBytes), malloc succeeding at base b.
Construct(i, n, b) ==
    /\ status[i] = "none"
    /\ b \notin heap
    /\ heap' = heap \cup {b}
    /\ status' = [status EXCEPT ![i] = "alive"]
    /\ m_memoryBlock' = [m_memoryBlock EXCEPT ![i] = b]
    /\ m_totalSize' = [m_totalSize EXCEPT ![i] = n]
    /\ m_offset' = [m_offset EXCEPT ![i] = 0]
    /\ last' = Call("Construct", 0, b)
    /\ UNCHANGED <<badFree, markers>>
    /\ UNCHANGED strayed

\* ArenaAllocator(sizeInBytes), malloc returning nullptr: bad_alloc is thrown
\* and no object comes to exist.
ConstructFail(i, n) ==
    /\ status[i] = "none"
    /\ last' = Call("Construct", 0, NULL)
    /\ UNCHANGED <<status, m_memoryBlock, m_totalSize, m_offset, heap, badFree, markers>>
    /\ UNCHANGED strayed

\* ~ArenaAllocator(): free(m_memoryBlock).  The object's storage is gone
\* afterwards; its fields are no longer program state.
Destroy(i) ==
    /\ status[i] = "alive"
    /\ heap' = HeapAfterFree(heap, m_memoryBlock[i])
    /\ badFree' = (badFree \/ FreeIsBad(heap, m_memoryBlock[i]))
    /\ status' = [status EXCEPT ![i] = "dead"]
    /\ m_memoryBlock' = [m_memoryBlock EXCEPT ![i] = NULL]
    /\ m_totalSize' = [m_totalSize EXCEPT ![i] = 0]
    /\ m_offset' = [m_offset EXCEPT ![i] = 0]
    /\ last' = Call("Destroy", 0, 0)
    /\ markers' = Forget(markers, {i})
    /\ UNCHANGED strayed

\* Mutant: only the pointer of the source is cleared.
MoveConstructNoClear(i, j) ==
    /\ status[i] = "none"
    /\ status[j] = "alive"
    /\ status' = [status EXCEPT ![i] = "alive"]
    /\ m_memoryBlock' = [m_memoryBlock EXCEPT ![i] = m_memoryBlock[j], ![j] = NULL]
    /\ m_totalSize' = [m_totalSize EXCEPT ![i] = m_totalSize[j]]
    /\ m_offset' = [m_offset EXCEPT ![i] = m_offset[j]]
    /\ last' = Call("MoveConstruct", j, i)
    /\ markers' = Estrange(markers, {i, j})
    /\ UNCHANGED <<heap, badFree>>
    /\ UNCHANGED strayed

\* Mutant: the offset is not taken over (the destination keeps its
\* default member initializer).
MoveConstructNoOffset(i, j) ==
    /\ status[i] = "none"
    /\ status[j] = "alive"
    /\ status' = [status EXCEPT ![i] = "alive"]
    /\ m_memoryBlock' = [m_memoryBlock EXCEPT ![i] = m_memoryBlock[j], ![j] = NULL]
    /\ m_totalSize' = [m_totalSize EXCEPT ![i] = m_totalSize[j], ![j] = 0]
    /\ m_offset' = [m_offset EXCEPT ![i] = 0, ![j] = 0]
    /\ last' = Call("MoveConstruct", j, i)
    /\ markers' = Estrange(markers, {i, j})
    /\ UNCHANGED <<heap, badFree>>
    /\ UNCHANGED strayed

\* ArenaAllocator(ArenaAllocator&& other): i is constructed from j.
MoveConstruct(i, j) ==
    /\ status[i] = "none"
    /\ status[j] = "alive"
    /\ status' = [status EXCEPT ![i] = "alive"]
    /\ m_memoryBlock' = [m_memoryBlock EXCEPT ![i] = m_memoryBlock[j], ![j] = NULL]
    /\ m_totalSize' = [m_totalSize EXCEPT ![i] = m_totalSize[j], ![j] = 0]
    /\ m_offset' = [m_offset EXCEPT ![i] = m_offset[j], ![j] = 0]
    /\ last' = Call("MoveConstruct", j, i)
    /\ markers' = Estrange(markers, {i, j})
    /\ UNCHANGED <<heap, badFree>>
    /\ UNCHANGED strayed

\* Mutant: the buffer the destination holds is not freed.
MoveAssignNoFree(i, j) ==
    /\ status[i] = "alive"
    /\ status[j] = "alive"
    /\ IF i # j
       THEN /\ m_memoryBlock' = [m_memoryBlock EXCEPT ![i] = m_memoryBlock[j], ![j] = NULL]
            /\ m_totalSize' = [m_totalSize EXCEPT ![i] = m_totalSize[j], ![j] = 0]
            /\ m_offset' = [m_offset EXCEPT ![i] = m_offset[j], ![j] = 0]
       ELSE UNCHANGED <<m_memoryBlock, m_totalSize, m_offset>>
    /\ last' = Call("MoveAssign", j, i)
    /\ markers' = IF i # j THEN Estrange(markers, {i, j}) ELSE markers
    /\ UNCHANGED <<status, heap, badFree>>
    /\ UNCHANGED strayed

\* Mutant: move assignment by swapping the fields with the source.
MoveAssignSwap(i, j) ==
    /\ status[i] = "alive"
    /\ status[j] = "alive"
    /\ m_memoryBlock' = [m_memoryBlock EXCEPT ![i] = m_memoryBlock[j], ![j] = m_memoryBlock[i]]
    /\ m_totalSize' = [m_totalSize EXCEPT ![i] = m_totalSize[j], ![j] = m_totalSize[i]]
    /\ m_offset' = [m_offset EXCEPT ![i] = m_offset[j], ![j] = m_offset[i]]
    /\ last' = Call("MoveAssign", j, i)
    /\ markers' = IF i # j THEN Estrange(markers, {i, j}) ELSE markers
    /\ UNCHANGED <<status, heap, badFree>>
    /\ UNCHANGED strayed

\* operator=(ArenaAllocator&& other): i = std::move(j); j may be i itself.
MoveAssign(i, j) ==
    /\ status[i] = "alive"
    /\ status[j] = "alive"
    /\ IF i # j
       THEN /\ heap' = HeapAfterFree(heap, m_memoryBlock[i])
            /\ badFree' = (badFree \/ FreeIsBad(heap, m_memoryBlock[i]))
            /\ m_memoryBlock' = [m_memoryBlock EXCEPT ![i] = m_memoryBlock[j], ![j] = NULL]
            /\ m_totalSize' = [m_totalSize EXCEPT ![i] = m_totalSize[j], ![j] = 0]
            /\ m_offset' = [m_offset EXCEPT ![i] = m_offset[j], ![j] = 0]
       ELSE UNCHANGED <<heap, badFree, m_memoryBlock, m_totalSize, m_offset>>
    /\ last' = Call("MoveAssign", j, i)
    /\ markers' = IF i # j THEN Estrange(markers, {i, j}) ELSE markers
    /\ UNCHANGED status
    /\ UNCHANGED strayed

\* ---------------------------------------------------------------- resets

\* Mutant: Reset() goes back to the first aligned position, not to 0.
ResetAligned(i) ==
    /\ status[i] = "alive"
    /\ m_offset' = [m_offset EXCEPT ![i] = Min(m_offset[i], 1)]
    /\ last' = Call("Reset", 0, 0)
    /\ markers' = Unwind(markers, i, 0)
    /\ UNCHANGED <<status, m_memoryBlock, m_totalSize, heap, badFree>>
    /\ UNCHANGED strayed

\* void Reset() { m_offset = 0; }
Reset(i) ==
    /\ status[i] = "alive"
    /\ m_offset' = [m_offset EXCEPT ![i] = 0]
    /\ last' = Call("Reset", 0, 0)
    /\ markers' = Unwind(markers, i, 0)
    /\ UNCHANGED <<status, m_memoryBlock, m_totalSize, heap, badFree>>
    /\ UNCHANGED strayed

\* Marker GetMarker() const { return m_offset; }  The caller keeps the value.
GetMarker(i) ==
    /\ status[i] = "alive"
    /\ markers' = Append(markers, Mark(i, m_offset[i], "ok"))
    /\ last' = Call("GetMarker", 0, m_offset[i])
    /\ UNCHANGED <<status, m_memoryBlock, m_totalSize, m_offset, heap, badFree>>
    /\ UNCHANGED strayed

\* Mutant: ResetToMarker() resets the arena altogether.
ResetToMarkerToZero(i, k) ==
    /\ status[i] = "alive"
    /\ k \in DOMAIN markers
    /\ markers[k].inst = i
    /\ m_offset' = [m_offset EXCEPT ![i] = 0]
    /\ markers' = IF markers[k].kind = "ok" THEN Unwind(markers, i, k)
                                             ELSE Unwind(markers, i, 0)
    /\ last' = Call("ResetToMarker", k, 0)
    /\ UNCHANGED <<status, m_memoryBlock, m_totalSize, heap, badFree>>
    /\ strayed' = (strayed \/ markers[k].kind = "foreign")

\* void ResetToMarker(marker) { m_offset = marker; } with the k-th marker the
\* caller holds, one that arena i returned.  Nothing is validated: the
\* marker may be unwound or foreign.  A rollback to a good marker passes the
\* markers taken after it; a rollback to a bad one leaves no marker of the
\* arena good.
ResetToMarker(i, k) ==
    /\ status[i] = "alive"
    /\ k \in DOMAIN markers
    /\ markers[k].inst = i
    /\ m_offset' = [m_offset EXCEPT ![i] = markers[k].val]
    /\ markers' = IF markers[k].kind = "ok" THEN Unwind(markers, i, k)
                                             ELSE Unwind(markers, i, 0)
    /\ last' = Call("ResetToMarker", k, 0)
    /\ UNCHANGED <<status, m_memoryBlock, m_totalSize, heap, badFree>>
    /\ strayed' = (strayed \/ markers[k].kind = "foreign")

\* The caller lets go of the k-th marker it holds (a local going out of scope).
DropMarker(k) ==
    /\ k \in DOMAIN markers
    /\ markers' = [n \in 1 .. (Len(markers) - 1) |->
                        IF n < k THEN markers[n] ELSE markers[n + 1]]
    /\ last' = Call("DropMarker", 0, 0)
    /\ UNCHANGED <<status, m_memoryBlock, m_totalSize, m_offset, heap, badFree>>
    /\ UNCHANGED strayed

GetUsedMemory(i) == m_offset[i]

GetTotalSize(i) == m_totalSize[i]


\* ---------------------------------------------------------------- history
\* What a caller that logs its calls knows.  Each run below keeps one log.

\* The bytes of arena i's buffer: [m_memoryBlock, m_memoryBlock + m_totalSize).
Buffer(i) == m_memoryBlock[i] .. (m_memoryBlock[i] + m_totalSize[i] - 1)

\* The result of the allocation call being logged, and whether it succeeded.
Given(i, size, align) ==
    AllocResult(m_memoryBlock[i], m_totalSize[i], m_offset[i], size, align)

Granted(i, size, align) ==
    ~AllocFails(m_memoryBlock[i], m_totalSize[i], m_offset[i], size, align)

\* Log of the run: how far into the buffer the allocations made since the
\* last Reset / ResetToMarker reach.
LogRunAlloc(i, size, align) ==
    /\ runEnd' = IF Granted(i, size, align)
                  THEN [runEnd EXCEPT ![i] =
                            Max(@, Min(Given(i, size, align) + size,
                                       m_memoryBlock[i] + m_totalSize[i]))]
                  ELSE runEnd
    /\ UNCHANGED <<owned, kept, first, objs>>

LogRunReset(i) ==
    /\ runEnd' = [runEnd EXCEPT ![i] = 0]
    /\ UNCHANGED <<owned, kept, first, objs>>

\* Log of the first allocation after construction: its alignment and result.
LogFirstAlloc(i, size, align) ==
    /\ first' = IF first[i] = NoFirst
                 THEN [first EXCEPT ![i] = [align |-> align, ret |-> Given(i, size, align)]]
                 ELSE first
    /\ UNCHANGED <<owned, kept, runEnd, objs>>

\* Log of the bytes: the bytes of the buffer that allocations handed out and
\* no reset has reclaimed.
LogBytesAlloc(i, size, align) ==
    /\ owned' = IF Granted(i, size, align)
                 THEN [owned EXCEPT ![i] = @ \cup
                        {x \in Buffer(i) : /\ Given(i, size, align) <= x
                                           /\ x < Given(i, size, align) + size}]
                 ELSE owned
    /\ UNCHANGED <<kept, runEnd, first, objs>>

\* Reset() reclaims every byte.
LogBytesReset(i) ==
    /\ owned' = [owned EXCEPT ![i] = {}]
    /\ kept' = [kept EXCEPT ![i] = {}]
    /\ UNCHANGED <<runEnd, first, objs>>

\* ResetToMarker() with a good marker reclaims what was handed out after the
\* marker was taken and preserves what was handed out before; after one with
\* a bad marker the caller can rely on nothing.
LogBytesRollback(i, k) ==
    LET saved == IF markers[k].kind = "ok" THEN markers[k].held ELSE {}
    IN  /\ owned' = [owned EXCEPT ![i] = saved]
        /\ kept' = [kept EXCEPT ![i] = saved]
        /\ UNCHANGED <<runEnd, first, objs>>

\* Log of the objects: New constructs a T at the address Alloc returned, in
\* storage that objects constructed earlier may still occupy (their storage
\* is reused, no destructor runs); it constructs nothing when Alloc failed.
Object(at, T) == [at |-> at, type |-> T, destructed |-> FALSE]

Overlap(o, at, T) == o.at < at + SizeOf(T) /\ at < o.at + SizeOf(o.type)

\* Mutant: placement new without the test of mem.
ConstructedAlways(os, block, total, offset, T) ==
    LET mem == AllocResult(block, total, offset, SizeOf(T), AlignOf(T))
    IN  {o \in os : ~Overlap(o, mem, T)} \cup {Object(mem, T)}

\* if (!mem) return nullptr; return new (mem) T(args...);
Constructed(os, block, total, offset, T) ==
    LET mem == AllocResult(block, total, offset, SizeOf(T), AlignOf(T))
    IN  IF mem = NULL
        THEN os
        ELSE {o \in os : ~Overlap(o, mem, T)} \cup {Object(mem, T)}

LogObjNew(i, T) ==
    /\ objs' = Constructed(objs, m_memoryBlock[i], m_totalSize[i], m_offset[i], T)
    /\ UNCHANGED <<owned, kept, runEnd, first>>

\* Mutant: the arena runs the destructors of what it reclaims.
TornDownAll(os) == {[o EXCEPT !.destructed = TRUE] : o \in os}

\* Reset, ResetToMarker and ~ArenaAllocator move the offset or free the
\* block; none of them calls a destructor.
TornDown(os) == os

LogObjReclaim ==
    /\ objs' = TornDown(objs)
    /\ UNCHANGED <<owned, kept, runEnd, first>>

\* The caller runs the destructor of an object itself: obj->~T().
LogObjDestruct(o) ==
    /\ o \in objs
    /\ ~o.destructed
    /\ objs' = (objs \ {o}) \cup {[o EXCEPT !.destructed = TRUE]}
    /\ last' = Call("Destruct", 0, 0)
    /\ UNCHANGED <<status, m_memoryBlock, m_totalSize, m_offset, heap, badFree, markers,
                   strayed, owned, kept, runEnd, first>>

\* ---------------------------------------------------------------- specification

\* Two arenas, every operation; no log.
Next ==
    \/ \E i \in Arenas, n \in 0 .. MaxSmallCapacity, b \in Bases :
            Construct(i, n, b) /\ UNCHANGED hist
    \/ \E i \in Arenas, n \in 0 .. MaxSmallCapacity :
            ConstructFail(i, n) /\ UNCHANGED hist
    \/ \E i \in Arenas : Destroy(i) /\ UNCHANGED hist
    \/ \E i \in Arenas, j \in Arenas : MoveConstruct(i, j) /\ UNCHANGED hist
    \/ \E i \in Arenas, j \in Arenas : MoveAssign(i, j) /\ UNCHANGED hist
    \/ \E i \in Arenas, size \in Sizes, align \in Aligns :
            Alloc(i, size, align) /\ UNCHANGED hist
    \/ \E i \in Arenas, T \in Types : New(i, T) /\ UNCHANGED hist
    \/ \E i \in Arenas, T \in Types, count \in Counts :
            AllocArray(i, T, count) /\ UNCHANGED hist
    \/ \E i \in Arenas : Reset(i) /\ UNCHANGED hist
    \/ \E i \in Arenas :
            Len(markers) < Cardinality(FewMarkerSlots) /\ GetMarker(i) /\ UNCHANGED hist
    \/ \E i \in Arenas, k \in FewMarkerSlots : ResetToMarker(i, k) /\ UNCHANGED hist
    \/ \E k \in FewMarkerSlots : DropMarker(k) /\ UNCHANGED hist

Spec == Init /\ [][Next]_vars

Alive(i) == status[i] = "alive"

\* The arena of the runs with one arena.
Solo == CHOOSE i \in Arenas : TRUE

\* One arena from construction on, every operation it can take part in
\* alone; no log.
NextSolo ==
    \/ \E n \in 0 .. MaxCapacity, b \in Bases : Construct(Solo, n, b) /\ UNCHANGED hist
    \/ \E n \in 0 .. MaxCapacity : ConstructFail(Solo, n) /\ UNCHANGED hist
    \/ Destroy(Solo) /\ UNCHANGED hist
    \/ MoveAssign(Solo, Solo) /\ UNCHANGED hist
    \/ \E size \in Sizes, align \in Aligns : Alloc(Solo, size, align) /\ UNCHANGED hist
    \/ \E T \in Types : New(Solo, T) /\ UNCHANGED hist
    \/ \E T \in Types, count \in Counts : AllocArray(Solo, T, count) /\ UNCHANGED hist
    \/ Reset(Solo) /\ UNCHANGED hist
    \/ Len(markers) < Cardinality(MarkerSlots) /\ GetMarker(Solo) /\ UNCHANGED hist
    \/ \E k \in MarkerSlots : ResetToMarker(Solo, k) /\ UNCHANGED hist
    \/ \E k \in MarkerSlots : DropMarker(k) /\ UNCHANGED hist

SpecSolo == Init /\ [][NextSolo]_vars

\* One arena, allocations and resets; the log of the run.
NextRun ==
    \/ \E n \in 0 .. MaxCapacity, b \in Bases : Construct(Solo, n, b) /\ UNCHANGED hist
    \/ \E size \in Sizes, align \in Aligns :
            Alloc(Solo, size, align) /\ LogRunAlloc(Solo, size, align)
    \/ \E T \in Types : New(Solo, T) /\ LogRunAlloc(Solo, SizeOf(T), AlignOf(T))
    \/ \E T \in Types, count \in Counts :
            AllocArray(Solo, T, count) /\ LogRunAlloc(Solo, ArrayBytes(T, count), AlignOf(T))
    \/ Reset(Solo) /\ LogRunReset(Solo)
    \/ Len(markers) < Cardinality(FewMarkerSlots) /\ GetMarker(Solo) /\ UNCHANGED hist
    \/ \E k \in FewMarkerSlots : ResetToMarker(Solo, k) /\ LogRunReset(Solo)

SpecRun == Init /\ [][NextRun]_vars

\* One arena, allocations and resets; the log of the first allocation.
NextFirst ==
    \/ \E n \in 0 .. MaxCapacity, b \in Bases : Construct(Solo, n, b) /\ UNCHANGED hist
    \/ \E size \in Sizes, align \in Aligns :
            Alloc(Solo, size, align) /\ LogFirstAlloc(Solo, size, align)
    \/ \E T \in Types : New(Solo, T) /\ LogFirstAlloc(Solo, SizeOf(T), AlignOf(T))
    \/ \E T \in Types, count \in Counts :
            AllocArray(Solo, T, count) /\ LogFirstAlloc(Solo, ArrayBytes(T, count), AlignOf(T))
    \/ Reset(Solo) /\ UNCHANGED hist

SpecFirst == Init /\ [][NextFirst]_vars

\* One arena, allocations, markers and resets; the log of the bytes.
NextScope ==
    \/ \E n \in 0 .. MaxSmallCapacity, b \in Bases : Construct(Solo, n, b) /\ UNCHANGED hist
    \/ \E size \in Sizes, align \in Aligns :
            Alloc(Solo, size, align) /\ LogBytesAlloc(Solo, size, align)
    \/ \E T \in Types : New(Solo, T) /\ LogBytesAlloc(Solo, SizeOf(T), AlignOf(T))
    \/ \E T \in Types, count \in Counts :
            AllocArray(Solo, T, count) /\ LogBytesAlloc(Solo, ArrayBytes(T, count), AlignOf(T))
    \/ Reset(Solo) /\ LogBytesReset(Solo)
    \/ Len(markers) < Cardinality(FewMarkerSlots) /\ GetMarker(Solo) /\ UNCHANGED hist
    \/ \E k \in FewMarkerSlots : ResetToMarker(Solo, k) /\ LogBytesRollback(Solo, k)
    \/ \E k \in FewMarkerSlots : DropMarker(k) /\ UNCHANGED hist

SpecScope == Init /\ [][NextScope]_vars

\* One arena, New, resets and destruction; the log of the objects.
NextObj ==
    \/ \E n \in 0 .. MaxCapacity, b \in Bases : Construct(Solo, n, b) /\ UNCHANGED hist
    \/ \E T \in Types : New(Solo, T) /\ LogObjNew(Solo, T)
    \/ Reset(Solo) /\ LogObjReclaim
    \/ Len(markers) < Cardinality(FewMarkerSlots) /\ GetMarker(Solo) /\ UNCHANGED hist
    \/ \E k \in FewMarkerSlots : ResetToMarker(Solo, k) /\ LogObjReclaim
    \/ Destroy(Solo) /\ LogObjReclaim
    \/ \E o \in objs : Alive(Solo) /\ LogObjDestruct(o)

SpecObj == Init /\ [][NextObj]_vars

\* Two arenas, their lifetimes and moves, with New, Reset and markers in
\* between; no log.
NextMove ==
    \/ \E i \in Arenas, n \in 0 .. MaxSmallCapacity, b \in Bases :
            Construct(i, n, b) /\ UNCHANGED hist
    \/ \E i \in Arenas : Destroy(i) /\ UNCHANGED hist
    \/ \E i \in Arenas, j \in Arenas : MoveConstruct(i, j) /\ UNCHANGED hist
    \/ \E i \in Arenas, j \in Arenas : MoveAssign(i, j) /\ UNCHANGED hist
    \/ \E i \in Arenas, T \in Types : New(i, T) /\ UNCHANGED hist
    \/ \E i \in Arenas : Reset(i) /\ UNCHANGED hist
    \/ \E i \in Arenas :
            Len(markers) < Cardinality(FewMarkerSlots) /\ GetMarker(i) /\ UNCHANGED hist
    \/ \E i \in Arenas, k \in FewMarkerSlots : ResetToMarker(i, k) /\ UNCHANGED hist

SpecMove == Init /\ [][NextMove]_vars

\* ---------------------------------------------------------------- claims

AllocOps == {"Alloc", "New", "AllocArray"}

\* C1, as claimed: in every reachable state, whatever sequence of
\* allocations, resets, rollbacks to a marker the same arena returned, move
\* constructions and move assignments led to it, every arena has
\* 0 <= offset <= capacity.
C1_OffsetWithinCapacity ==
    \A i \in Arenas : 0 <= m_offset[i] /\ m_offset[i] <= m_totalSize[i]

\* C1, amended: as long as no ResetToMarker has been given a marker that was
\* taken before the arena was moved into or out of (a marker of another
\* buffer and capacity), every arena has 0 <= offset <= capacity, whatever
\* allocations, resets, rollbacks, move constructions and move assignments
\* led to the state.
C1_OffsetWithinCapacityOfSameBuffer ==
    ~strayed => C1_OffsetWithinCapacity

\* C1's case: after allocations that filled an arena, and a marker taken on
\* it, the arena was rolled back to that marker, which is not foreign.
C1_Witness ==
    /\ ~strayed
    /\ last.op = "ResetToMarker"
    /\ markers[last.arg].kind = "ok"
    /\ \E i \in Arenas :
        /\ Alive(i) /\ markers[last.arg].inst = i
        /\ m_offset[i] = m_totalSize[i] /\ m_offset[i] > 0

\* C2: an allocation B that succeeds starts at or after the end of every
\* allocation A made since the last Reset / ResetToMarker, and its bytes lie
\* inside the buffer [base, base + capacity).
C2_SequentialInsideBuffer ==
    \A size \in Word, align \in Aligns :
        (Alive(Solo) /\ Granted(Solo, size, align)) =>
            /\ Given(Solo, size, align) >= runEnd[Solo]
            /\ Given(Solo, size, align) >= m_memoryBlock[Solo]
            /\ Given(Solo, size, align) + size <= m_memoryBlock[Solo] + m_totalSize[Solo]

\* C3: an Alloc(size, align) for which padding + size fits the remaining
\* capacity returns a non-null address that is a multiple of align, wherever
\* the buffer lies.
C3_AlignedNonNull ==
    \A align \in Aligns :
        LET used == m_offset[Solo] + Padding(m_memoryBlock[Solo], m_offset[Solo], align)
        IN  \A size \in {s \in Word : used + s <= m_totalSize[Solo]} :
                (Alive(Solo) /\ m_memoryBlock[Solo] # NULL)
                => /\ Given(Solo, size, align) # NULL
                   /\ Given(Solo, size, align) % align = 0

\* C3's case: an allocation call returned an address aligned beyond what
\* malloc guarantees, in a buffer whose base is not aligned that far.
C3_Witness ==
    /\ last.op \in AllocOps
    /\ last.ret # NULL
    /\ last.ret % (2 * MallocAlign) = 0
    /\ Alive(Solo)
    /\ m_memoryBlock[Solo] % (2 * MallocAlign) # 0
    /\ m_offset[Solo] > last.ret - m_memoryBlock[Solo]
    /\ m_offset[Solo] <= m_totalSize[Solo]

\* C4: for every size in the range of size_t, an Alloc(size, align) with
\* offset + padding + size > capacity returns nullptr and leaves m_offset.
C4_ExceedingRequestFails ==
    \A size \in Word, align \in Aligns :
        (/\ Alive(Solo)
         /\ m_offset[Solo] + Padding(m_memoryBlock[Solo], m_offset[Solo], align) + size
                > m_totalSize[Solo])
        => /\ Given(Solo, size, align) = NULL
           /\ AllocOffset(m_memoryBlock[Solo], m_totalSize[Solo], m_offset[Solo],
                           size, align) = m_offset[Solo]

\* C5: a call of Alloc, New or AllocArray that returns nullptr leaves the
\* offset, the capacity and the buffer of every arena as they were.
C5_FailureChangesNothing ==
    [][(last'.op \in AllocOps /\ last'.ret = NULL) =>
            /\ m_offset' = m_offset
            /\ m_totalSize' = m_totalSize
            /\ m_memoryBlock' = m_memoryBlock]_vars

\* C5's case: the only arena there is holds a partly used buffer, and the
\* last call was an allocation that returned nullptr.
C5_Witness ==
    /\ last.op \in AllocOps
    /\ last.ret = NULL
    /\ \E i \in Arenas :
        /\ Alive(i) /\ \A j \in Arenas \ {i} : status[j] = "none"
        /\ m_memoryBlock[i] # NULL
        /\ 0 < m_offset[i] /\ m_offset[i] < m_totalSize[i]

\* C6: no call of Alloc, New or AllocArray lowers the offset of an arena.
C6_AllocNeverLowersOffset ==
    [][last'.op \in AllocOps => \A i \in Arenas : m_offset'[i] >= m_offset[i]]_vars

\* C7, as claimed: after Reset() GetUsedMemory() is 0 and the next
\* allocation, whatever it asks for, returns the address the arena's first
\* allocation after construction returned.
C7_ResetRepeatsFirstAddress ==
    last.op = "Reset" =>
        /\ GetUsedMemory(Solo) = 0
        /\ first[Solo] # NoFirst =>
                \A size \in Sizes, align \in Aligns :
                    Given(Solo, size, align) = first[Solo].ret

\* C7, amended: after Reset() GetUsedMemory() is 0, and the next allocation,
\* if it succeeds and asks for the alignment of the arena's first allocation
\* after construction, which succeeded, returns the address that one
\* returned (an arena constructed with a capacity and not moved since).
C7_ResetRepeatsFirstAddressSameAlign ==
    last.op = "Reset" =>
        /\ GetUsedMemory(Solo) = 0
        /\ first[Solo].ret # NULL =>
                \A size \in Word :
                    Granted(Solo, size, first[Solo].align) =>
                        Given(Solo, size, first[Solo].align) = first[Solo].ret

\* C7's case: the first allocation succeeded, over-aligned in a buffer whose
\* base is not aligned that far (so its address is not the base), and the
\* arena has just been reset.
C7_Witness ==
    /\ last.op = "Reset"
    /\ first[Solo].ret # NULL
    /\ first[Solo].align = 2 * MallocAlign
    /\ first[Solo].ret # m_memoryBlock[Solo]

\* C8: right after ResetToMarker(M), for a marker M with only allocations
\* (and rollbacks to later markers) since it was taken, GetUsedMemory() is M
\* and the arena is in the state it was in when M was taken: every
\* allocation request returns what it would have returned then, and leaves
\* the offset it would have left then.
C8_RollbackRestoresMarkerState ==
    (last.op = "ResetToMarker" /\ markers[last.arg].kind = "ok") =>
        LET m == markers[last.arg]
        IN  /\ GetUsedMemory(Solo) = m.val
            /\ \A size \in Word, align \in Aligns :
                /\ Given(Solo, size, align) =
                        AllocResult(m.block, m.total, m.val, size, align)
                /\ AllocOffset(m_memoryBlock[Solo], m_totalSize[Solo], m_offset[Solo],
                                size, align)
                        = AllocOffset(m.block, m.total, m.val, size, align)

\* C8's case: a marker was taken, allocations moved the offset on, a second
\* marker was taken there, and the arena has just been rolled back to the
\* first one.
C8_Witness ==
    /\ last.op = "ResetToMarker"
    /\ last.arg = 1
    /\ Len(markers) = 2
    /\ markers[1].kind = "ok"
    /\ markers[2].kind = "unwound"
    /\ markers[2].val > markers[1].val
    /\ markers[1].val > 0

\* C9: with markers used in last-in-first-out order, no allocation made
\* after ResetToMarker(M) overlaps an allocation made before M was taken:
\* the bytes of an allocation that succeeds are none of the bytes the last
\* rollback preserved.
C9_RollbackPreservesEarlier ==
    \A size \in Sizes, align \in Aligns :
        (Alive(Solo) /\ Granted(Solo, size, align)) =>
            \A x \in kept[Solo] :
                ~(Given(Solo, size, align) <= x /\ x < Given(Solo, size, align) + size)

\* C10: every buffer malloc handed out is held by exactly one live arena
\* until it is freed, free is never called on a buffer that is not held, no
\* live arena points to a freed buffer, and nothing is left once no arena
\* is alive.
C10_EveryBufferReleasedOnce ==
    /\ ~badFree
    /\ \A b \in heap :
            Cardinality({i \in Arenas : Alive(i) /\ m_memoryBlock[i] = b}) = 1
    /\ \A i \in Arenas : (Alive(i) /\ m_memoryBlock[i] # NULL) => m_memoryBlock[i] \in heap
    /\ (\A i \in Arenas : ~Alive(i)) => heap = {}

\* C10's case: every arena has been constructed and destroyed, one of them
\* last, and the heap is empty.
C10_Witness ==
    /\ last.op = "Destroy"
    /\ \A i \in Arenas : status[i] = "dead"
    /\ heap = {}

Moves == {"MoveConstruct", "MoveAssign"}

\* The destination i has what the source j had.
TakenOver(i, j) ==
    /\ m_memoryBlock'[i] = m_memoryBlock[j]
    /\ m_totalSize'[i] = m_totalSize[j]
    /\ m_offset'[i] = m_offset[j]

\* The source j is left empty.
LeftEmpty(j) ==
    /\ m_memoryBlock'[j] = NULL
    /\ m_totalSize'[j] = 0
    /\ m_offset'[j] = 0

\* C11, as claimed: every move construction and every move assignment gives
\* the destination the buffer, capacity and offset of the source and leaves
\* the source with no buffer, capacity 0 and offset 0.
C11_MoveTransfersAndEmpties ==
    [][last'.op \in Moves =>
            TakenOver(last'.ret, last'.arg) /\ LeftEmpty(last'.arg)]_vars

\* C11, amended: a move construction, and a move assignment whose source is
\* another arena than its destination, gives the destination the buffer,
\* capacity and offset of the source and leaves the source with no buffer,
\* capacity 0 and offset 0; a move assignment of an arena to itself leaves
\* its buffer, capacity and offset as they are.
C11_MoveBetweenTwoTransfersAndEmpties ==
    [][last'.op \in Moves =>
            IF last'.ret # last'.arg
            THEN TakenOver(last'.ret, last'.arg) /\ LeftEmpty(last'.arg)
            ELSE UNCHANGED <<m_memoryBlock, m_totalSize, m_offset>>]_vars

\* C11's case: an arena with a buffer in use has just been move constructed
\* from another one, which is left empty.
C11_Witness ==
    /\ last.op = "MoveConstruct"
    /\ last.ret # last.arg
    /\ m_memoryBlock[last.ret] # NULL
    /\ m_offset[last.ret] > 0
    /\ m_memoryBlock[last.arg] = NULL
    /\ m_totalSize[last.arg] = 0

Reclaims == {"Reset", "ResetToMarker", "Destroy"}

\* C12: Reset(), ResetToMarker() and the destruction of the arena run no
\* destructor: the objects constructed by New and their destructed flags are
\* the same after the call as before.
C12_ReclaimRunsNoDestructor ==
    [][last'.op \in Reclaims => objs' = objs]_vars

\* C12's case: the arena has been destroyed while an object constructed in
\* it had not been destructed, and its flag is still unset.
C12_Witness ==
    /\ last.op = "Destroy"
    /\ status[Solo] = "dead"
    /\ \E o \in objs : ~o.destructed

\* C13: New<T> returns what Alloc(sizeof(T), alignof(T)) returns; when that
\* is nullptr no object is constructed and the arena is unchanged; otherwise
\* one T is constructed at the returned address, a multiple of alignof(T),
\* and no other object is.
C13_NewConstructsIffAllocSucceeds ==
    [][last'.op = "New" =>
        \E T \in Types :
            /\ last'.ret = Given(Solo, SizeOf(T), AlignOf(T))
            /\ IF last'.ret = NULL
               THEN objs' = objs /\ m_offset' = m_offset
               ELSE /\ last'.ret % AlignOf(T) = 0
                    /\ Object(last'.ret, T) \in objs'
                    /\ (objs' \ {Object(last'.ret, T)}) \subseteq objs
                    /\ \A o \in objs' \ {Object(last'.ret, T)} :
                            ~Overlap(o, last'.ret, T)]_vars

\* C13's case: New<short> has just constructed an object one byte of padding
\* after a char constructed before it.
C13_Witness ==
    /\ last.op = "New"
    /\ last.ret # NULL
    /\ Object(last.ret, "short") \in objs
    /\ \E o \in objs : o.type = "char" /\ o.at = last.ret - 2

\* C14: for every count, when AllocArray<T>(count) returns a non-null
\* pointer, the count slots of sizeof(T) bytes from that address on lie
\* inside the buffer and inside the range by which m_offset advanced.
C14_ArrayHoldsCountSlots ==
    \A T \in Types, count \in Counts :
        LET p == Given(Solo, ArrayBytes(T, count), AlignOf(T))
            after == AllocOffset(m_memoryBlock[Solo], m_totalSize[Solo], m_offset[Solo],
                                 ArrayBytes(T, count), AlignOf(T))
        IN  (Alive(Solo) /\ p # NULL) =>
                /\ p >= m_memoryBlock[Solo] + m_offset[Solo]
                /\ p + count * SizeOf(T) <= m_memoryBlock[Solo] + after
                /\ p + count * SizeOf(T) <= m_memoryBlock[Solo] + m_totalSize[Solo]

\* The states of an arena object: Active holds a buffer, Released is
\* destroyed or left without a buffer by a move.
Active(i) == Alive(i) /\ m_memoryBlock[i] # NULL

Released(i) == status[i] = "dead" \/ (Alive(i) /\ m_memoryBlock[i] = NULL)

\* C15, as claimed: no operation makes an arena that is Released (moved
\* from or destroyed) Active again.
C15_ReleasedIsTerminal ==
    [][\A i \in Arenas : Released(i) => ~Active(i)']_vars

\* C15, amended: a destroyed arena never becomes Active again, and an arena
\* left without a buffer by a move becomes Active again only as the
\* destination of a move assignment; no other operation on it (allocation,
\* Reset, GetMarker, ResetToMarker, being moved from again) makes it hold a
\* buffer.
C15_ReleasedUntilAssignedInto ==
    [][\A i \in Arenas :
            (Released(i) /\ Active(i)') =>
                /\ status[i] = "alive"
                /\ last'.op = "MoveAssign"
                /\ last'.ret = i
                /\ last'.arg # i]_vars

\* C15's case: an arena that was moved from is the only arena left, Reset
\* has been called on it, and it holds no buffer.
C15_Witness ==
    /\ last.op = "Reset"
    /\ \E i \in Arenas :
        /\ Alive(i) /\ m_memoryBlock[i] = NULL
        /\ \A j \in Arenas \ {i} : status[j] = "dead"

\* C16: Reset() and ResetToMarker(m) never increase m_offset.  Stated for
\* the markers the arena returned that no Reset and no rollback to an
\* earlier marker has passed since (the last-in-first-out use the interface
\* asks for); the claim is about every marker the arena returned.
C16_ResetsNeverRaiseOffset ==
    [][(\/ last'.op = "Reset"
        \/ last'.op = "ResetToMarker" /\ markers[last'.arg].kind = "ok")
            => m_offset'[Solo] <= m_offset[Solo]]_vars

\* The step changes the capacity of arena i or the buffer it holds.
Changed(i) ==
    \/ m_totalSize'[i] # m_totalSize[i]
    \/ m_memoryBlock'[i] # m_memoryBlock[i]

\* C17, as claimed: the capacity and the buffer of an arena change only when
\* it is destroyed or moved from.
C17_CapacityFixedForLifetime ==
    [][\A i \in Arenas :
            (Alive(i) /\ Changed(i)) =>
                \/ status'[i] = "dead"
                \/ last'.op \in Moves /\ last'.arg = i]_vars

\* C17, amended: the capacity and the buffer of an arena change only when it
\* is destroyed, moved from, or made the destination of a move assignment
\* (which gives it the capacity and buffer of the source); no other
\* operation on the instance changes them.
C17_CapacityFixedUnlessAssignedInto ==
    [][\A i \in Arenas :
            (Alive(i) /\ Changed(i)) =>
                \/ status'[i] = "dead"
                \/ last'.op \in Moves /\ last'.arg = i
                \/ last'.op = "MoveAssign" /\ last'.ret = i]_vars

\* C17's case: the only arena there is was constructed with the largest
\* capacity and has been allocated from until it is full; its capacity is
\* what it was.
C17_Witness ==
    /\ last.op \in AllocOps
    /\ last.ret # NULL
    /\ \E i \in Arenas :
        /\ Active(i) /\ \A j \in Arenas \ {i} : status[j] = "none"
        /\ GetTotalSize(i) = MaxSmallCapacity
        /\ m_offset[i] = m_totalSize[i]

\* An arena that a move left without a buffer.
MovedFrom(i) == Alive(i) /\ m_memoryBlock[i] = NULL

C19_RangeEndsAtOffset ==
    \A size \in Sizes, align \in Aligns :
        LET p == Given(Solo, size, align)
            after == AllocOffset(m_memoryBlock[Solo], m_totalSize[Solo], m_offset[Solo],
                                 size, align)
        IN  (Alive(Solo) /\ p # NULL) =>
                /\ p + size = m_memoryBlock[Solo] + after
                /\ after = m_offset[Solo]
                            + Padding(m_memoryBlock[Solo], m_offset[Solo], align) + size

\* C20: for every power-of-two align and the current bump address a, the
\* padding computed with the mask a & (align - 1) is (align - a mod align)
\* mod align: below align, 0 when a is aligned, and the least padding that
\* makes a + padding a multiple of align.
C20_MaskPaddingIsModPadding ==
    \A align \in Aligns :
        LET a == CurrentPtr(m_memoryBlock[Solo], m_offset[Solo])
            pad == Padding(m_memoryBlock[Solo], m_offset[Solo], align)
        IN  Alive(Solo) =>
                /\ pad = (align - (a % align)) % align
                /\ pad < align
                /\ (a % align = 0) => pad = 0
                /\ (a + pad) % align = 0
                /\ \A q \in 0 .. (pad - 1) : (a + q) % align # 0

\* C20's case: the bump address is one byte below a multiple of the largest
\* alignment, so the padding is 1 for every alignment above 1.
C20_Witness ==
    /\ Alive(Solo)
    /\ m_offset[Solo] > 0
    /\ CurrentPtr(m_memoryBlock[Solo], m_offset[Solo]) % (2 * MallocAlign)
            = 2 * MallocAlign - 1
    /\ Padding(m_memoryBlock[Solo], m_offset[Solo], 2 * MallocAlign) = 1

====
